---- MODULE Spec2Model ----
(***************************************************************************)
(* Reconstruction of parquet fixed-length-byte-array column statistics     *)
(* into arrow statistics (src/io/parquet/read/statistics/fixlen.rs).       *)
(*                                                                         *)
(* The code is a set of pure conversions.  The state machine draws one     *)
(* physical statistics record and one target DataType in Init and then     *)
(* applies the dispatcher, the decimal conversion or the FixedSizeBinary   *)
(* construction to it, and finally the Statistics accessors to the result. *)
(*                                                                         *)
(* Option<T> is modelled as a sequence of length at most one: None is <<>>,*)
(* Some(x) is <<x>>.  A 128-bit signed integer is modelled by its sign and *)
(* its magnitude, the magnitude being eight big-endian limbs of 16 bits,   *)
(* because the integers of the model checker are 32 bits wide.             *)
(***************************************************************************)
EXTENDS Integers, Sequences, FiniteSets, TLC

VARIABLES stats, data_type, pc, op, result, observed

vars == <<stats, data_type, pc, op, result, observed>>

-----------------------------------------------------------------------------
(* Bounds of the model. *)

\* Largest physical byte width of a FixedLenByteArray drawn in Init.
MaxWidth == 20

-----------------------------------------------------------------------------
(* Option<T> *)

None == <<>>

Some(x) == <<x>>

IsSome(o) == o # <<>>

Unwrap(o) == o[1]

-----------------------------------------------------------------------------
(* i128 and its big-endian byte encoding *)

\* Number of bytes of an i128.
I128Bytes == 16

\* Number of 16-bit limbs of the magnitude of an i128.
Limbs == 8

\* Radix of one limb.
LimbBase == 65536

\* Radix of one byte.
ByteBase == 256

\* The unsigned 128-bit number with the big-endian bytes b, as limbs.
MagFromBytes(b) == [i \in 1 .. Limbs |-> b[2 * i - 1] * ByteBase + b[2 * i]]

\* The big-endian bytes of the unsigned 128-bit number with limbs m (the
\* inverse of MagFromBytes; the conversions do not call it, the round-trip
\* property does).
MagToBytes(m) ==
    [j \in 1 .. I128Bytes |->
        IF j % 2 = 1 THEN m[(j + 1) \div 2] \div ByteBase
                     ELSE m[j \div 2] % ByteBase]

RECURSIVE NegCarry(_, _)
\* The carry into limb i when one is added to the complement of m.
NegCarry(m, i) ==
    IF i = Limbs THEN 1
    ELSE ((LimbBase - 1 - m[i + 1]) + NegCarry(m, i + 1)) \div LimbBase

\* (2^128 - m) mod 2^128: the two's-complement negation of 128 bits.
Neg128(m) ==
    [i \in 1 .. Limbs |-> ((LimbBase - 1 - m[i]) + NegCarry(m, i)) % LimbBase]

\* Faulty variant of from_be_bytes: the bytes are read little-endian.
from_le_bytes(b) ==
    LET r == [i \in 1 .. I128Bytes |-> b[I128Bytes + 1 - i]]
    IN  IF r[1] >= 128
        THEN [neg |-> TRUE, mag |-> Neg128(MagFromBytes(r))]
        ELSE [neg |-> FALSE, mag |-> MagFromBytes(r)]

\* i128::from_be_bytes of an array of exactly 16 bytes.
from_be_bytes(b) ==
    IF b[1] >= 128
    THEN [neg |-> TRUE, mag |-> Neg128(MagFromBytes(b))]
    ELSE [neg |-> FALSE, mag |-> MagFromBytes(b)]

\* i128::to_be_bytes, the re-encoding of the round-trip property; it is not
\* called by the conversions.
to_be_bytes(v) ==
    IF v.neg THEN MagToBytes(Neg128(v.mag)) ELSE MagToBytes(v.mag)

-----------------------------------------------------------------------------
(* DataType, PhysicalType and the error type *)

Decimal(precision, scale) ==
    [variant |-> "Decimal", precision |-> precision, scale |-> scale]

FixedSizeBinary(size) == [variant |-> "FixedSizeBinary", size |-> size]

Int32 == [variant |-> "Int32"]

Utf8 == [variant |-> "Utf8"]

FixedLenByteArray(size) == [variant |-> "FixedLenByteArray", size |-> size]

Digit(d) ==
    CASE d = 0 -> "0" [] d = 1 -> "1" [] d = 2 -> "2" [] d = 3 -> "3"
      [] d = 4 -> "4" [] d = 5 -> "5" [] d = 6 -> "6" [] d = 7 -> "7"
      [] d = 8 -> "8" [] d = 9 -> "9"

RECURSIVE DebugInt(_)
\* The {:?} rendering of a non-negative integer: its decimal digits.
DebugInt(n) ==
    IF n < 10 THEN Digit(n) ELSE DebugInt(n \div 10) \o Digit(n % 10)

\* The derived {:?} rendering of a DataType.
DebugDataType(t) ==
    CASE t.variant = "Decimal" ->
           "Decimal(" \o DebugInt(t.precision) \o ", "
                      \o DebugInt(t.scale) \o ")"
      [] t.variant = "FixedSizeBinary" ->
           "FixedSizeBinary(" \o DebugInt(t.size) \o ")"
      [] OTHER -> t.variant

\* Result<T>: Ok(value) or Err(ArrowError).  The message of an error is the
\* sequence of the pieces format! writes, in order.
Ok(v) == [tag |-> "Ok", value |-> v]

Err(e) == [tag |-> "Err", error |-> e]

ExternalFormat(msg) == [kind |-> "ExternalFormat", msg |-> msg]

NotYetImplemented(msg) == [kind |-> "NotYetImplemented", msg |-> msg]

\* unreachable!()
Panic == [tag |-> "Panic"]

\* A value that was returned is wrapped in Ok; a panic unwinds through the
\* caller.
Returned(v) == IF v = Panic THEN Panic ELSE Ok(v)

-----------------------------------------------------------------------------
(* The conversions *)

\* The size of the physical type; unreachable!() for any other variant.
ByteLens(s) ==
    IF s.physical_type.variant = "FixedLenByteArray"
    THEN Some(s.physical_type.size)
    ELSE None

\* (0..(16 - byte_lens)).map(|_| 0u8).collect()
Paddings(byte_lens) == [i \in 1 .. (I128Bytes - byte_lens) |-> 0]

\* Faulty variant of DecodeBound: the padding follows the value.
DecodeBound_padAfter(paddings, value) ==
    LET cat == value \o paddings
    IN  IF Len(cat) = I128Bytes THEN Some(from_be_bytes(cat)) ELSE None

\* Faulty variant of DecodeBound: the padding repeats the sign of the value.
DecodeBound_signExtend(paddings, value) ==
    LET fill == IF Len(value) > 0 /\ value[1] >= 128 THEN 255 ELSE 0
        cat == [i \in DOMAIN paddings |-> fill] \o value
    IN  IF Len(cat) = I128Bytes THEN Some(from_be_bytes(cat)) ELSE None

\* Faulty variant of DecodeBound: a concatenation longer than 16 bytes is cut
\* to its last 16 bytes and a shorter one is padded further.
DecodeBound_resize(paddings, value) ==
    LET cat == paddings \o value
        n == Len(cat)
        fit == IF n >= I128Bytes
               THEN SubSeq(cat, n - I128Bytes + 1, n)
               ELSE [i \in 1 .. (I128Bytes - n) |-> 0] \o cat
    IN  Some(from_be_bytes(fit))

\* [paddings, value].concat().try_into().map(i128::from_be_bytes).ok()
DecodeBound(paddings, value) ==
    LET cat == paddings \o value
    IN  IF Len(cat) = I128Bytes THEN Some(from_be_bytes(cat)) ELSE None

\* Option::and_then over DecodeBound
DecodeOpt(paddings, bound) ==
    IF IsSome(bound) THEN DecodeBound(paddings, Unwrap(bound)) ELSE None

\* From<&ParquetFixedLenStatistics> for FixedLenStatistics
FixedLenFrom(s) ==
    IF ~IsSome(ByteLens(s)) THEN Panic
    ELSE [kind           |-> "FixedLenStatistics",
          null_count     |-> s.null_count,
          distinct_count |-> s.distinct_count,
          min_value      |-> s.min_value,
          max_value      |-> s.max_value,
          data_type      |-> FixedSizeBinary(Unwrap(ByteLens(s)))]

\* Faulty variant of try_from: the width check admits 17 bytes.
try_from_width17(s, dt) ==
    IF ~IsSome(ByteLens(s)) THEN Panic
    ELSE LET byte_lens == Unwrap(ByteLens(s))
         IN  IF byte_lens > 17
             THEN Err(ExternalFormat(
                    <<"Can't deserialize i128 from Fixed Len Byte array with length ",
                      DebugInt(byte_lens)>>))
             ELSE LET paddings == Paddings(byte_lens)
                  IN  Ok([kind           |-> "PrimitiveStatistics",
                          data_type      |-> dt,
                          null_count     |-> s.null_count,
                          distinct_count |-> s.distinct_count,
                          max_value      |-> DecodeOpt(paddings, s.max_value),
                          min_value      |-> DecodeOpt(paddings, s.min_value)])

\* Faulty variant of try_from: the minimum is decoded only next to a maximum.
try_from_coupled(s, dt) ==
    IF ~IsSome(ByteLens(s)) THEN Panic
    ELSE LET byte_lens == Unwrap(ByteLens(s))
         IN  IF byte_lens > 16
             THEN Err(ExternalFormat(
                    <<"Can't deserialize i128 from Fixed Len Byte array with length ",
                      DebugInt(byte_lens)>>))
             ELSE LET paddings == Paddings(byte_lens)
                  IN  Ok([kind           |-> "PrimitiveStatistics",
                          data_type      |-> dt,
                          null_count     |-> s.null_count,
                          distinct_count |-> s.distinct_count,
                          max_value      |-> DecodeOpt(paddings, s.max_value),
                          min_value      |->
                             IF IsSome(s.max_value)
                             THEN DecodeOpt(paddings, s.min_value)
                             ELSE None])

\* Faulty variant of try_from: a width the declared precision cannot hold is
\* rejected as well.
try_from_precision(s, dt) ==
    IF ~IsSome(ByteLens(s)) THEN Panic
    ELSE LET byte_lens == Unwrap(ByteLens(s))
         IN  IF byte_lens > 16 \/ 2 * byte_lens > dt.precision
             THEN Err(ExternalFormat(
                    <<"Can't deserialize i128 from Fixed Len Byte array with length ",
                      DebugInt(byte_lens)>>))
             ELSE LET paddings == Paddings(byte_lens)
                  IN  Ok([kind           |-> "PrimitiveStatistics",
                          data_type      |-> dt,
                          null_count     |-> s.null_count,
                          distinct_count |-> s.distinct_count,
                          max_value      |-> DecodeOpt(paddings, s.max_value),
                          min_value      |-> DecodeOpt(paddings, s.min_value)])

\* TryFrom<(&ParquetFixedLenStatistics, DataType)> for PrimitiveStatistics<i128>
try_from(s, dt) ==
    IF ~IsSome(ByteLens(s)) THEN Panic
    ELSE LET byte_lens == Unwrap(ByteLens(s))
         IN  IF byte_lens > 16
             THEN Err(ExternalFormat(
                    <<"Can't deserialize i128 from Fixed Len Byte array with length ",
                      DebugInt(byte_lens)>>))
             ELSE LET paddings == Paddings(byte_lens)
                  IN  Ok([kind           |-> "PrimitiveStatistics",
                          data_type      |-> dt,
                          null_count     |-> s.null_count,
                          distinct_count |-> s.distinct_count,
                          max_value      |-> DecodeOpt(paddings, s.max_value),
                          min_value      |-> DecodeOpt(paddings, s.min_value)])

\* Faulty variant of statistics_from_fix_len: the FixedSizeBinary result keeps
\* the declared data type.
statistics_from_fix_len_declared(s, dt) ==
    CASE dt.variant = "Decimal" -> try_from(s, dt)
      [] dt.variant = "FixedSizeBinary" ->
           Returned([FixedLenFrom(s) EXCEPT !.data_type = dt])
      [] OTHER ->
           Err(NotYetImplemented(
                 <<"Can't read ", DebugDataType(dt), " from parquet">>))

\* Faulty variant of statistics_from_fix_len: every type that is not a
\* decimal is read as FixedSizeBinary.
statistics_from_fix_len_fallthrough(s, dt) ==
    CASE dt.variant = "Decimal" -> try_from(s, dt)
      [] OTHER -> Returned(FixedLenFrom(s))

\* statistics_from_fix_len
statistics_from_fix_len(s, dt) ==
    CASE dt.variant = "Decimal" -> try_from(s, dt)
      [] dt.variant = "FixedSizeBinary" ->
           Returned(FixedLenFrom(s))
      [] OTHER ->
           Err(NotYetImplemented(
                 <<"Can't read ", DebugDataType(dt), " from parquet">>))

\* Statistics::data_type of FixedLenStatistics
StatsDataType(v) == v.data_type

\* Faulty variant of StatsNullCount: the distinct count is reported.
StatsNullCount_distinct(v) == v.distinct_count

\* Statistics::null_count of FixedLenStatistics
StatsNullCount(v) == v.null_count

-----------------------------------------------------------------------------
(* Inputs *)

\* Shapes of the byte strings drawn as bounds: first byte, middle bytes,
\* last byte.
Patterns ==
    { <<0, 0, 1>>, <<0, 0, 10>>, <<0, 0, 0>>,
      <<128, 0, 0>>, <<255, 255, 255>>, <<127, 255, 254>> }

BytesOf(p, len) ==
    [i \in 1 .. len |-> IF i = len THEN p[3] ELSE IF i = 1 THEN p[1] ELSE p[2]]

\* A bound is as long as the byte width, or one byte shorter or longer.
LenDeltas == {-1, 0, 1}

BoundsOf(w) ==
    {None} \cup
    { Some(BytesOf(p, w + d)) : p \in Patterns,
                                d \in {x \in LenDeltas : w + x >= 0} }

NullCounts == {None, Some(0), Some(7)}

DistinctCounts == {None, Some(3)}

DataTypes ==
    { Decimal(9, 0), Decimal(38, 0), Decimal(38, 10), FixedSizeBinary(8),
      Int32, Utf8 }

ParquetFixedLenStatistics(w) ==
    [ null_count     : NullCounts,
      distinct_count : DistinctCounts,
      min_value      : BoundsOf(w),
      max_value      : BoundsOf(w),
      physical_type  : {FixedLenByteArray(w)} ]

NoResult == [tag |-> "None"]

-----------------------------------------------------------------------------
(* The state machine *)

Init ==
    /\ \E w \in 0 .. MaxWidth : stats \in ParquetFixedLenStatistics(w)
    /\ data_type \in DataTypes
    /\ pc = "ready"
    /\ op = "none"
    /\ result = NoResult
    /\ observed = NoResult

\* A reader calls statistics_from_fix_len(stats, data_type).
Dispatch ==
    /\ pc = "ready"
    /\ result' = statistics_from_fix_len(stats, data_type)
    /\ op' = "statistics_from_fix_len"
    /\ pc' = "returned"
    /\ UNCHANGED <<stats, data_type, observed>>

\* PrimitiveStatistics::<i128>::try_from((stats, data_type)) with a decimal
\* target type.
ConvertDecimal ==
    /\ pc = "ready"
    /\ data_type.variant = "Decimal"
    /\ result' = try_from(stats, data_type)
    /\ op' = "try_from"
    /\ pc' = "returned"
    /\ UNCHANGED <<stats, data_type, observed>>

\* FixedLenStatistics::from(stats)
ConstructFixedLen ==
    /\ pc = "ready"
    /\ result' = Returned(FixedLenFrom(stats))
    /\ op' = "from"
    /\ pc' = "returned"
    /\ UNCHANGED <<stats, data_type, observed>>

\* The caller reads data_type() and null_count() of a returned
\* FixedLenStatistics.
Inspect ==
    /\ pc = "returned"
    /\ result.tag = "Ok"
    /\ result.value.kind = "FixedLenStatistics"
    /\ observed' = [tag        |-> "Seen",
                    data_type  |-> StatsDataType(result.value),
                    null_count |-> StatsNullCount(result.value)]
    /\ pc' = "inspected"
    /\ UNCHANGED <<stats, data_type, op, result>>

Next == Dispatch \/ ConvertDecimal \/ ConstructFixedLen \/ Inspect

Spec == Init /\ [][Next]_vars

-----------------------------------------------------------------------------
(* Vocabulary of the properties *)

\* The physical byte width of the input record.
Width == stats.physical_type.size

HasReturned == pc \in {"returned", "inspected"}

\* The decimal conversion has run, directly or through the dispatcher.
DecimalCall ==
    /\ HasReturned
    /\ data_type.variant = "Decimal"
    /\ op \in {"statistics_from_fix_len", "try_from"}

\* The FixedSizeBinary construction has run, directly or through the
\* dispatcher.
FixedLenCall ==
    /\ HasReturned
    /\ \/ op = "from"
       \/ op = "statistics_from_fix_len" /\ data_type.variant = "FixedSizeBinary"

\* The dispatcher has run with a FixedSizeBinary target type.
FixedLenDispatch ==
    /\ HasReturned
    /\ op = "statistics_from_fix_len"
    /\ data_type.variant = "FixedSizeBinary"

\* The dispatcher has run with a target type it does not support.
OtherDispatch ==
    /\ HasReturned
    /\ op = "statistics_from_fix_len"
    /\ data_type.variant \notin {"Decimal", "FixedSizeBinary"}

IsOk == result.tag = "Ok"

IsErr(kind) == result.tag = "Err" /\ result.error.kind = kind

\* The message has piece as one of its formatted pieces.
Mentions(msg, piece) == \E i \in DOMAIN msg : msg[i] = piece

Zeros(n) == [i \in 1 .. n |-> 0]

\* A bound of the input that is present and as long as the byte width.
WellFormed(bound) == IsSome(bound) /\ Len(Unwrap(bound)) = Width

\* Pairs <<input bound, output bound>> of a successful result.
BoundPairs ==
    { <<stats.min_value, result.value.min_value>>,
      <<stats.max_value, result.value.max_value>> }

\* Moduli of the residue arithmetic: nine primes whose product exceeds
\* 2^129, so that two integers of magnitude at most 2^128 that agree modulo
\* each of them are equal.
Primes == {32749, 32719, 32717, 32713, 32707, 32693, 32687, 32653, 32647}

RECURSIVE HornerMod(_, _, _, _)
\* The number with the big-endian digits d[1..n] in the given base, modulo p.
HornerMod(d, n, base, p) ==
    IF n = 0 THEN 0
    ELSE (HornerMod(d, n - 1, base, p) * (base % p) + d[n]) % p

RECURSIVE PowMod(_, _, _)
\* base^e modulo p
PowMod(base, e, p) ==
    IF e = 0 THEN 1 ELSE (PowMod(base, e - 1, p) * (base % p)) % p

\* The two's-complement big-endian signed integer of the bytes b, modulo p.
SignedBytesMod(b, p) ==
    LET n == Len(b)
        unsigned == HornerMod(b, n, ByteBase, p)
    IN  IF n > 0 /\ b[1] >= 128
        THEN (unsigned + p - PowMod(ByteBase, n, p)) % p
        ELSE unsigned

\* The unsigned big-endian integer of the bytes b, modulo p.
UnsignedBytesMod(b, p) == HornerMod(b, Len(b), ByteBase, p)

\* The integer a modelled i128 stands for, modulo p.
I128Mod(v, p) ==
    LET m == HornerMod(v.mag, Limbs, LimbBase, p)
    IN  IF v.neg THEN (p - m) % p ELSE m

\* The sign of the two's-complement integer of the bytes b is negative.
SignBit(b) == Len(b) > 0 /\ b[1] >= 128

\* The modelled i128 is a well-formed value: it is in -2^127 .. 2^127 - 1 and
\* zero is not negative.
I128Valid(v) ==
    /\ \A i \in 1 .. Limbs : v.mag[i] \in 0 .. (LimbBase - 1)
    /\ v.neg => \/ v.mag[1] < 32768 /\ v.mag # Zeros(Limbs)
                \/ v.mag = [i \in 1 .. Limbs |-> IF i = 1 THEN 32768 ELSE 0]
    /\ ~v.neg => v.mag[1] < 32768

\* The modelled i128 is the two's-complement signed integer of the bytes b.
DenotesSigned(v, b) ==
    /\ I128Valid(v)
    /\ v.neg = SignBit(b)
    /\ \A p \in Primes : I128Mod(v, p) = SignedBytesMod(b, p)

\* The integer of a modelled i128 that fits in 31 bits.
ToInt(v) ==
    LET m == v.mag[Limbs - 1] * LimbBase + v.mag[Limbs]
    IN  IF v.neg THEN 0 - m ELSE m

FitsInt(v) ==
    /\ \A i \in 1 .. (Limbs - 2) : v.mag[i] = 0
    /\ v.mag[Limbs - 1] < 16384

-----------------------------------------------------------------------------
(* Properties *)

\* C1: a decimal conversion of a record whose byte width exceeds 16 fails,
\* directly and through the dispatcher, with an ExternalFormat error whose
\* message carries the width, whatever the counts and the bounds are.
C1_WideDecimalFails ==
    (DecimalCall /\ Width > 16) =>
        /\ IsErr("ExternalFormat")
        /\ Mentions(result.error.msg, DebugInt(Width))

\* C1 witness: width 20 with target Decimal(38, 0) through the dispatcher,
\* with both bounds and the null count present, has failed.
C1_Witness ==
    /\ DecimalCall
    /\ op = "statistics_from_fix_len"
    /\ Width = 20
    /\ data_type = Decimal(38, 0)
    /\ IsSome(stats.min_value) /\ IsSome(stats.max_value)
    /\ IsSome(stats.null_count)
    /\ IsErr("ExternalFormat")
    /\ Mentions(result.error.msg, "20")

\* C2: for a byte width of at most 16 the decimal conversion succeeds and
\* every bound that is exactly as long as the width is decoded to the signed
\* 128-bit integer whose big-endian bytes are 16 - w zero bytes followed by
\* the bytes of the bound; width 4 with bytes [0,0,0,1] and [0,0,0,10] gives
\* 1 and 10.
C2_ExactDecode ==
    (DecimalCall /\ Width <= 16) =>
        /\ IsOk
        /\ \A pr \in BoundPairs :
              WellFormed(pr[1]) =>
                 /\ IsSome(pr[2])
                 /\ DenotesSigned(Unwrap(pr[2]),
                                  Zeros(I128Bytes - Width) \o Unwrap(pr[1]))
        /\ (Width = 4 /\ stats.min_value = Some(<<0, 0, 0, 1>>)) =>
              (FitsInt(Unwrap(result.value.min_value))
                 /\ ToInt(Unwrap(result.value.min_value)) = 1)
        /\ (Width = 4 /\ stats.max_value = Some(<<0, 0, 0, 10>>)) =>
              (FitsInt(Unwrap(result.value.max_value))
                 /\ ToInt(Unwrap(result.value.max_value)) = 10)

\* C2 witness: the scenario of width 4 with target Decimal(9, 0) has been
\* decoded to 1 and 10.
C2_Witness ==
    /\ DecimalCall
    /\ Width = 4
    /\ data_type = Decimal(9, 0)
    /\ stats.min_value = Some(<<0, 0, 0, 1>>)
    /\ stats.max_value = Some(<<0, 0, 0, 10>>)
    /\ IsOk
    /\ ToInt(Unwrap(result.value.min_value)) = 1
    /\ ToInt(Unwrap(result.value.max_value)) = 10

\* C3: with a FixedSizeBinary target type the dispatcher succeeds for every
\* byte width, the bounds of the result are the bounds of the input, and the
\* data type of the result, also as data_type() reports it, is
\* FixedSizeBinary of the physical byte width and not of the declared size.
C3_FixedLenVerbatim ==
    FixedLenDispatch =>
        /\ IsOk
        /\ result.value.kind = "FixedLenStatistics"
        /\ result.value.min_value = stats.min_value
        /\ result.value.max_value = stats.max_value
        /\ result.value.data_type = FixedSizeBinary(Width)
        /\ pc = "inspected" => observed.data_type = FixedSizeBinary(Width)

\* C3 witness: a record of width 20 with both bounds present was given the
\* target FixedSizeBinary(8) and data_type() was read.
C3_Witness ==
    /\ FixedLenDispatch
    /\ pc = "inspected"
    /\ Width = 20
    /\ data_type = FixedSizeBinary(8)
    /\ WellFormed(stats.min_value) /\ WellFormed(stats.max_value)
    /\ stats.min_value # stats.max_value
    /\ observed.data_type = FixedSizeBinary(20)

\* C4: for a target type that is neither Decimal nor FixedSizeBinary the
\* dispatcher fails with a NotYetImplemented error whose message names the
\* type, for every width, count and bound.
C4_UnsupportedFails ==
    OtherDispatch =>
        /\ IsErr("NotYetImplemented")
        /\ Mentions(result.error.msg, DebugDataType(data_type))

\* C4 witness: the dispatcher has rejected Int32 for a record of width 20
\* with bounds present.
C4_Witness ==
    /\ OtherDispatch
    /\ data_type = Int32
    /\ Width = 20
    /\ IsSome(stats.min_value) /\ IsSome(stats.max_value)
    /\ IsErr("NotYetImplemented")
    /\ Mentions(result.error.msg, "Int32")

\* The record with one bound replaced.
WithMin(b) == [stats EXCEPT !.min_value = b]

WithMax(b) == [stats EXCEPT !.max_value = b]

\* C5: in both successful reconstructions each bound is handled on its own:
\* an absent input bound gives an absent output bound whatever the other
\* bound is, and replacing one input bound by any other bound of the input
\* space leaves the other output bound as it is.
C5_BoundsIndependent ==
    /\ (DecimalCall /\ Width <= 16) =>
          /\ IsOk
          /\ ~IsSome(stats.min_value) => ~IsSome(result.value.min_value)
          /\ ~IsSome(stats.max_value) => ~IsSome(result.value.max_value)
          /\ \A b \in BoundsOf(Width) :
                /\ try_from(WithMax(b), data_type).value.min_value
                      = result.value.min_value
                /\ try_from(WithMin(b), data_type).value.max_value
                      = result.value.max_value
    /\ FixedLenCall =>
          /\ IsOk
          /\ ~IsSome(stats.min_value) => ~IsSome(result.value.min_value)
          /\ ~IsSome(stats.max_value) => ~IsSome(result.value.max_value)
          /\ \A b \in BoundsOf(Width) :
                /\ FixedLenFrom(WithMax(b)).min_value = result.value.min_value
                /\ FixedLenFrom(WithMin(b)).max_value = result.value.max_value

\* C5 witness: a decimal conversion of a record without minimum and with a
\* well-formed maximum has given no minimum and a maximum.
C5_Witness ==
    /\ DecimalCall
    /\ Width <= 16
    /\ ~IsSome(stats.min_value)
    /\ WellFormed(stats.max_value)
    /\ IsOk
    /\ ~IsSome(result.value.min_value)
    /\ IsSome(result.value.max_value)

\* C6: for a byte width of at most 16, the 16 big-endian bytes of a decoded
\* bound are 16 - w zero bytes followed by the bytes of the input bound, and
\* two different bounds of the width are decoded to different integers.
C6_RoundTrip ==
    (DecimalCall /\ Width <= 16 /\ IsOk) =>
        /\ \A pr \in BoundPairs :
              WellFormed(pr[1]) =>
                 to_be_bytes(Unwrap(pr[2]))
                    = Zeros(I128Bytes - Width) \o Unwrap(pr[1])
        /\ (/\ WellFormed(stats.min_value)
            /\ WellFormed(stats.max_value)
            /\ stats.min_value # stats.max_value)
              => result.value.min_value # result.value.max_value

\* C6 witness: two different 16-byte bounds, one of them with the sign bit
\* set, have been decoded.
C6_Witness ==
    /\ DecimalCall
    /\ Width = 16
    /\ WellFormed(stats.min_value) /\ WellFormed(stats.max_value)
    /\ Unwrap(stats.min_value)[1] >= 128
    /\ stats.min_value # stats.max_value
    /\ IsOk
    /\ IsSome(result.value.min_value) /\ IsSome(result.value.max_value)
    /\ Unwrap(result.value.min_value).neg

\* C7: a successful reconstruction carries null_count and distinct_count of
\* the input unchanged, in the decimal and in the FixedSizeBinary path;
\* null_count() reports that null count; the decimal result is tagged with
\* the data type of the caller.
C7_CountsAndTypeCarried ==
    /\ (DecimalCall /\ Width <= 16) =>
          /\ IsOk
          /\ result.value.null_count = stats.null_count
          /\ result.value.distinct_count = stats.distinct_count
          /\ result.value.data_type = data_type
    /\ FixedLenCall =>
          /\ IsOk
          /\ result.value.null_count = stats.null_count
          /\ result.value.distinct_count = stats.distinct_count
          /\ pc = "inspected" => observed.null_count = stats.null_count

\* C7 witness: a FixedSizeBinary reconstruction of a record with null count
\* 7 and distinct count 3 was made and null_count() was read.
C7_Witness ==
    /\ FixedLenCall
    /\ pc = "inspected"
    /\ stats.null_count = Some(7)
    /\ stats.distinct_count = Some(3)
    /\ observed.null_count = Some(7)
    /\ result.value.distinct_count = Some(3)

\* The bytes of the magnitude above the lowest w bytes are zero: the
\* magnitude is below 2^(8w).
MagBelow(m, w) ==
    \A j \in 1 .. (I128Bytes - w) : MagToBytes(m)[j] = 0

\* C8: the padding of the decimal conversion is zero bytes and never the
\* sign: for a width below 16 every decoded bound is in 0 .. 2^(8w) - 1 and
\* is the unsigned integer of the bytes, which for a bound with the sign
\* bit set is its two's-complement value plus 2^(8w); for width 16 the
\* decoded bound is the two's-complement value and is negative exactly when
\* the sign bit is set.
C8_ZeroPadding ==
    (DecimalCall /\ Width <= 16 /\ IsOk) =>
        \A pr \in BoundPairs :
           WellFormed(pr[1]) =>
              LET b == Unwrap(pr[1])
                  v == Unwrap(pr[2])
              IN  /\ Width < 16 =>
                        /\ ~v.neg
                        /\ MagBelow(v.mag, Width)
                        /\ Width <= 3 =>
                              (FitsInt(v) /\ ToInt(v) \in 0 .. (256 ^ Width - 1))
                        /\ \A p \in Primes :
                              I128Mod(v, p) = UnsignedBytesMod(b, p)
                        /\ SignBit(b) =>
                              \A p \in Primes :
                                 /\ I128Mod(v, p) =
                                       (SignedBytesMod(b, p)
                                          + PowMod(ByteBase, Width, p)) % p
                                 /\ I128Mod(v, p) # SignedBytesMod(b, p)
                  /\ Width = 16 =>
                        /\ v.neg = SignBit(b)
                        /\ \A p \in Primes :
                              I128Mod(v, p) = SignedBytesMod(b, p)

\* C8 witness: the two bytes [255, 255], -1 in two's complement, have been
\* decoded to 65535.
C8_Witness ==
    /\ DecimalCall
    /\ Width = 2
    /\ stats.min_value = Some(<<255, 255>>)
    /\ IsOk
    /\ ToInt(Unwrap(result.value.min_value)) = 65535

\* C9: for a byte width of at most 16 the decimal conversion succeeds also
\* when a bound is not as long as the width; an output bound is present
\* exactly when the input bound is present and as long as the width, and
\* the counts are carried as usual.
C9_LengthCheck ==
    (DecimalCall /\ Width <= 16) =>
        /\ IsOk
        /\ \A pr \in BoundPairs : IsSome(pr[2]) <=> WellFormed(pr[1])
        /\ result.value.null_count = stats.null_count
        /\ result.value.distinct_count = stats.distinct_count

\* C9 witness: a minimum one byte short and a maximum one byte long, next
\* to a null count, have both been dropped by a successful conversion.
C9_Witness ==
    /\ DecimalCall
    /\ Width = 8
    /\ IsSome(stats.min_value) /\ Len(Unwrap(stats.min_value)) = 7
    /\ IsSome(stats.max_value) /\ Len(Unwrap(stats.max_value)) = 9
    /\ stats.null_count = Some(7)
    /\ IsOk
    /\ ~IsSome(result.value.min_value)
    /\ ~IsSome(result.value.max_value)
    /\ result.value.null_count = Some(7)

\* The outcome of a call of the dispatcher.
Outcome(r) ==
    CASE r.tag = "Ok" /\ r.value.kind = "PrimitiveStatistics" -> "decimal"
      [] r.tag = "Ok" /\ r.value.kind = "FixedLenStatistics" -> "fixed_len"
      [] r.tag = "Err" /\ r.error.kind = "ExternalFormat" -> "external_format"
      [] r.tag = "Err" /\ r.error.kind = "NotYetImplemented" ->
           "not_yet_implemented"
      [] OTHER -> "none"

\* The outcome the variant of the target type and the byte width select.
ExpectedOutcome(variant, w) ==
    CASE variant = "Decimal" /\ w <= 16 -> "decimal"
      [] variant = "Decimal" /\ w > 16 -> "external_format"
      [] variant = "FixedSizeBinary" -> "fixed_len"
      [] OTHER -> "not_yet_implemented"

\* C10: every call of the dispatcher returns one of four outcomes, and
\* which one is decided by the variant of the target type and the byte
\* width alone, not by precision, scale, declared size, counts or bounds.
C10_FourOutcomes ==
    (HasReturned /\ op = "statistics_from_fix_len") =>
        Outcome(result) = ExpectedOutcome(data_type.variant, Width)

\* C10 witness: a 16-byte bound of all 255 bytes was accepted for
\* Decimal(9, 0) by the dispatcher.
C10_Witness ==
    /\ HasReturned
    /\ op = "statistics_from_fix_len"
    /\ data_type = Decimal(9, 0)
    /\ Width = 16
    /\ stats.max_value = Some([i \in 1 .. 16 |-> 255])
    /\ Outcome(result) = "decimal"
    /\ IsSome(result.value.max_value)

====
